---- MODULE Spec2Model ----
(***************************************************************************)
(* Rule-augmented scam-text classification: app/inference.py (predict_scam *)
(* and preprocess_message), app/rules.py (normalize_text, apply_rules and  *)
(* the phrase registries) and app/app.py (the /predict endpoint).          *)
(*                                                                         *)
(* A text is a sequence of one-character strings.  A probability or a      *)
(* confidence is an integer number of ten-thousandths (0.65 is 6500), so   *)
(* that the rounding to two decimals is a real computation.                *)
(***************************************************************************)
EXTENDS Integers, Sequences, FiniteSets, TLC

VARIABLES classes_, semantics, message, pc, op, clf, result, outs

vars == <<classes_, semantics, message, pc, op, clf, result, outs>>

(* ------------------------------ bounds --------------------------------- *)

\* a message is made of at most MaxFrags fragments joined by one space
MaxFrags == 2

\* normalize_text / preprocess_message are re-applied at most MaxPasses times
MaxPasses == 2

(* ----------------------------- characters ------------------------------ *)

LowerLetters ==
  {"a","b","c","d","e","f","g","h","i","j","k","l","m",
   "n","o","p","q","r","s","t","u","v","w","x","y","z"}

UpperLetters ==
  {"A","B","C","D","E","F","G","H","I","J","K","L","M",
   "N","O","P","Q","R","S","T","U","V","W","X","Y","Z"}

LowerOf ==
  [c \in UpperLetters |->
     CASE c = "A" -> "a" [] c = "B" -> "b" [] c = "C" -> "c" [] c = "D" -> "d"
       [] c = "E" -> "e" [] c = "F" -> "f" [] c = "G" -> "g" [] c = "H" -> "h"
       [] c = "I" -> "i" [] c = "J" -> "j" [] c = "K" -> "k" [] c = "L" -> "l"
       [] c = "M" -> "m" [] c = "N" -> "n" [] c = "O" -> "o" [] c = "P" -> "p"
       [] c = "Q" -> "q" [] c = "R" -> "r" [] c = "S" -> "s" [] c = "T" -> "t"
       [] c = "U" -> "u" [] c = "V" -> "v" [] c = "W" -> "w" [] c = "X" -> "x"
       [] c = "Y" -> "y" [] c = "Z" -> "z"]

\* the characters the regular expression class \s matches
Whitespace == {" ", "\t", "\n", "\r"}

\* str.lower() on one character
lower(c) == IF c \in UpperLetters THEN LowerOf[c] ELSE c

(* --------------------------- text helpers ------------------------------ *)

Range(s) == {s[i] : i \in 1..Len(s)}

\* re.sub(r'[^a-z\s]', '', text): the other characters are deleted
RemoveNonAlpha(s) ==
  SelectSeq(s, LAMBDA c : c \in LowerLetters \/ c \in Whitespace)

\* re.sub(r'\s+', ' ', text): each run of whitespace becomes one space
RECURSIVE CollapseFrom(_, _)
CollapseFrom(t, i) ==
  IF i > Len(t) THEN <<>>
  ELSE IF t[i] = " " /\ i > 1 /\ t[i - 1] = " " THEN CollapseFrom(t, i + 1)
  ELSE <<t[i]>> \o CollapseFrom(t, i + 1)

CollapseWhitespace(s) ==
  CollapseFrom([i \in 1..Len(s) |-> IF s[i] \in Whitespace THEN " " ELSE s[i]], 1)

\* str.strip(): leading and trailing whitespace removed
RECURSIVE strip(_)
strip(s) ==
  IF s = <<>> THEN s
  ELSE IF s[1] \in Whitespace THEN strip(Tail(s))
  ELSE IF s[Len(s)] \in Whitespace THEN strip(SubSeq(s, 1, Len(s) - 1))
  ELSE s

\* str.split(): the maximal runs of non-whitespace characters
RECURSIVE SplitFrom(_, _, _)
SplitFrom(s, i, word) ==
  IF i > Len(s) THEN (IF word = <<>> THEN <<>> ELSE <<word>>)
  ELSE IF s[i] \in Whitespace
       THEN (IF word = <<>> THEN <<>> ELSE <<word>>) \o SplitFrom(s, i + 1, <<>>)
       ELSE SplitFrom(s, i + 1, Append(word, s[i]))

split(s) == SplitFrom(s, 1, <<>>)

\* Python's "phrase in text" on strings: phrase is a contiguous substring
Contains(text, phrase) ==
  \E i \in 0..(Len(text) - Len(phrase)) :
     SubSeq(text, i + 1, i + Len(phrase)) = phrase

(* ----------------------------- rules.py -------------------------------- *)

StripThenClean(text) ==
  CollapseWhitespace(RemoveNonAlpha(strip([i \in 1..Len(text) |-> lower(text[i])])))

normalize_text(text) ==
  strip(CollapseWhitespace(RemoveNonAlpha([i \in 1..Len(text) |-> lower(text[i])])))

RAW_GREETINGS ==
  {<<"h","i">>, <<"h","e","l","l","o">>, <<"h","i","i">>, <<"h","e","l","o">>, <<"h","e","y">>, <<"h","e","y","y">>, <<"h","e","l","l","o","o","o">>, <<"h","i","i","i","i">>,
   <<"g","o","o","d"," ","m","o","r","n","i","n","g">>, <<"g","o","o","d"," ","a","f","t","e","r","n","o","o","n">>, <<"g","o","o","d"," ","e","v","e","n","i","n","g">>, <<"g","o","o","d"," ","n","i","g","h","t">>,
   <<"m","o","r","n","i","n","g">>, <<"a","f","t","e","r","n","o","o","n">>, <<"e","v","e","n","i","n","g">>,
   <<"h","o","w"," ","a","r","e"," ","y","o","u">>, <<"h","o","w"," ","a","r","e"," ","y","o","u","?">>, <<"h","o","w"," ","r"," ","u">>, <<"h","o","w"," ","r"," ","y","o","u">>,
   <<"o","k">>, <<"o","k","a","y">>, <<"t","h","a","n","k","s">>, <<"t","h","a","n","k"," ","y","o","u">>, <<"t","h","a","n","k"," ","u">>, <<"t","h","x">>, <<"t","y">>,
   <<"h","i"," ","h","o","w"," ","a","r","e"," ","y","o","u">>, <<"h","e","l","l","o"," ","h","o","w"," ","a","r","e"," ","y","o","u">>, <<"h","e","y"," ","h","o","w"," ","a","r","e"," ","y","o","u">>,
   <<"h","i"," ","g","o","o","d"," ","m","o","r","n","i","n","g">>, <<"h","e","l","l","o"," ","g","o","o","d"," ","m","o","r","n","i","n","g">>, <<"h","e","y"," ","g","o","o","d"," ","m","o","r","n","i","n","g">>,
   <<"h","i"," ","g","o","o","d"," ","a","f","t","e","r","n","o","o","n">>, <<"h","e","l","l","o"," ","g","o","o","d"," ","a","f","t","e","r","n","o","o","n">>, <<"h","e","y"," ","g","o","o","d"," ","a","f","t","e","r","n","o","o","n">>,
   <<"h","i"," ","g","o","o","d"," ","e","v","e","n","i","n","g">>, <<"h","e","l","l","o"," ","g","o","o","d"," ","e","v","e","n","i","n","g">>, <<"h","e","y"," ","g","o","o","d"," ","e","v","e","n","i","n","g">>,
   <<"h","i","i"," ","g","o","o","d"," ","m","o","r","n","i","n","g">>, <<"h","i","i"," ","g","o","o","d"," ","a","f","t","e","r","n","o","o","n">>, <<"h","i","i"," ","g","o","o","d"," ","e","v","e","n","i","n","g">>,
   <<"g","o","o","d"," ","m","o","r","n","i","n","g"," ","h","o","w"," ","a","r","e"," ","y","o","u">>, <<"g","o","o","d"," ","a","f","t","e","r","n","o","o","n"," ","h","o","w"," ","a","r","e"," ","y","o","u">>,
   <<"g","o","o","d"," ","e","v","e","n","i","n","g"," ","h","o","w"," ","a","r","e"," ","y","o","u">>,
   <<"h","i"," ","t","h","e","r","e">>, <<"h","e","l","l","o"," ","t","h","e","r","e">>, <<"h","e","y"," ","t","h","e","r","e">>,
   <<"w","h","a","t","s"," ","u","p">>, <<"w","h","a","t","'","s"," ","u","p">>, <<"w","a","s","s","u","p">>, <<"s","u","p">>,
   <<"n","i","c","e"," ","t","o"," ","m","e","e","t"," ","y","o","u">>, <<"p","l","e","a","s","e","d"," ","t","o"," ","m","e","e","t"," ","y","o","u">>}

MIN_SAFE_LENGTH == 15

RAW_GENUINE_MESSAGES ==
  {<<"i","'","m"," ","o","n"," ","m","y"," ","w","a","y">>, <<"o","n"," ","m","y"," ","w","a","y">>, <<"r","u","n","n","i","n","g"," ","l","a","t","e">>, <<"s","e","e"," ","y","o","u"," ","s","o","o","n">>,
   <<"s","e","e"," ","y","o","u"," ","l","a","t","e","r">>, <<"l","e","t","'","s"," ","m","e","e","t">>, <<"l","e","t"," ","u","s"," ","m","e","e","t">>, <<"l","e","t","'","s"," ","c","a","t","c","h"," ","u","p">>,
   <<"c","a","l","l"," ","m","e"," ","w","h","e","n"," ","y","o","u"," ","c","a","n">>, <<"c","a","l","l"," ","m","e"," ","l","a","t","e","r">>, <<"c","a","n"," ","y","o","u"," ","c","a","l","l"," ","m","e">>,
   <<"r","e","c","e","i","v","e","d"," ","t","h","e"," ","f","i","l","e">>, <<"i"," ","r","e","c","e","i","v","e","d"," ","t","h","e"," ","f","i","l","e">>, <<"t","h","a","n","k","s"," ","f","o","r"," ","t","h","e"," ","u","p","d","a","t","e">>,
   <<"t","h","a","n","k"," ","y","o","u"," ","f","o","r"," ","t","h","e"," ","u","p","d","a","t","e">>, <<"t","h","a","n","k"," ","y","o","u"," ","f","o","r"," ","y","o","u","r"," ","h","e","l","p">>,
   <<"t","h","a","n","k","s"," ","f","o","r"," ","y","o","u","r"," ","h","e","l","p">>, <<"h","a","p","p","y"," ","b","i","r","t","h","d","a","y">>, <<"c","o","n","g","r","a","t","u","l","a","t","i","o","n","s">>, <<"c","o","n","g","r","a","t","s">>,
   <<"m","e","e","t","i","n","g"," ","a","t">>, <<"s","e","e"," ","a","t","t","a","c","h","e","d">>, <<"a","t","t","a","c","h","e","d"," ","i","s">>, <<"i"," ","w","i","l","l"," ","b","e"," ","t","h","e","r","e">>,
   <<"i","'","l","l"," ","b","e"," ","t","h","e","r","e">>, <<"i"," ","h","a","v","e"," ","r","e","c","e","i","v","e","d">>, <<"p","a","y","m","e","n","t"," ","r","e","c","e","i","v","e","d">>,
   <<"i","n","v","o","i","c","e"," ","r","e","c","e","i","v","e","d">>}

RulesGREETINGS == {normalize_text(g) : g \in RAW_GREETINGS}

GENUINE_MESSAGES == {normalize_text(p) : p \in RAW_GENUINE_MESSAGES}

SCAM_KEYWORDS ==
  {<<"o","t","p">>, <<"v","e","r","i","f","y">>, <<"u","r","g","e","n","t">>, <<"b","l","o","c","k","e","d">>, <<"s","u","s","p","e","n","d","e","d">>, <<"e","x","p","i","r","e","d">>,
   <<"c","l","i","c","k">>, <<"l","i","n","k">>, <<"p","r","i","z","e">>, <<"w","o","n">>, <<"w","i","n","n","e","r">>, <<"l","o","t","t","e","r","y">>, <<"c","l","a","i","m">>,
   <<"a","c","c","o","u","n","t">>, <<"b","a","n","k">>, <<"c","a","r","d">>, <<"c","v","v">>, <<"p","i","n">>, <<"p","a","s","s","w","o","r","d">>,
   <<"r","e","w","a","r","d">>, <<"f","r","e","e">>, <<"c","o","n","g","r","a","t","u","l","a","t","i","o","n","s">>, <<"c","o","n","f","i","r","m">>, <<"u","p","d","a","t","e">>}

greeting_words ==
  {<<"h","i">>, <<"h","i","i">>, <<"h","e","l","l","o">>, <<"h","e","y">>, <<"m","o","r","n","i","n","g">>, <<"a","f","t","e","r","n","o","o","n">>, <<"e","v","e","n","i","n","g">>, <<"g","o","o","d">>,
   <<"n","i","g","h","t">>, <<"h","o","w">>, <<"a","r","e">>, <<"y","o","u">>, <<"r">>, <<"u">>, <<"t","h","e","r","e">>}

None == [label |-> "None", confidence |-> -1]

RuleVerdict(label, confidence) == [label |-> label, confidence |-> confidence]

\* the short-message condition of the last rule
IsShort(normalized_text) ==
  Len(split(normalized_text)) <= 3 \/ Len(normalized_text) < MIN_SAFE_LENGTH

ContainsGenuine(normalized_text) ==
  \E phrase \in GENUINE_MESSAGES : Contains(normalized_text, phrase)

ContainsKeyword(normalized_text) ==
  \E keyword \in SCAM_KEYWORDS : Contains(normalized_text, keyword)

apply_rules_short_first(text) ==
  LET normalized_text == normalize_text(text)
      words == split(normalized_text)
  IN  IF IsShort(normalized_text) /\ ~ContainsKeyword(normalized_text)
        THEN RuleVerdict("SAFE", 9800)
      ELSE IF normalized_text \in RulesGREETINGS THEN RuleVerdict("SAFE", 9900)
      ELSE IF Len(words) <= 6 /\ \A i \in 1..Len(words) : words[i] \in greeting_words
        THEN RuleVerdict("SAFE", 9900)
      ELSE IF ContainsGenuine(normalized_text) THEN RuleVerdict("SAFE", 9900)
      ELSE None

apply_rules(text) ==
  LET normalized_text == normalize_text(text)
      words == split(normalized_text)
  IN  IF normalized_text \in RulesGREETINGS THEN RuleVerdict("SAFE", 9900)
      ELSE IF Len(words) <= 6 /\ \A i \in 1..Len(words) : words[i] \in greeting_words
        THEN RuleVerdict("SAFE", 9900)
      ELSE IF ContainsGenuine(normalized_text) THEN RuleVerdict("SAFE", 9900)
      ELSE IF IsShort(normalized_text)
        THEN (IF ContainsKeyword(normalized_text) THEN None
              ELSE RuleVerdict("SAFE", 9800))
      ELSE None

(* --------------------------- inference.py ------------------------------ *)

\* one whole, in ten-thousandths
Scale == 100 * 100

InferenceGREETINGS ==
  {<<"h","i">>, <<"h","e","l","l","o">>, <<"h","i","i">>, <<"h","e","y">>, <<"h","i"," ","t","h","e","r","e">>, <<"h","e","l","l","o"," ","t","h","e","r","e">>,
   <<"g","o","o","d"," ","m","o","r","n","i","n","g">>, <<"g","o","o","d"," ","a","f","t","e","r","n","o","o","n">>, <<"g","o","o","d"," ","e","v","e","n","i","n","g">>}

preprocess_message(text) ==
  strip(CollapseWhitespace(RemoveNonAlpha([i \in 1..Len(text) |-> lower(text[i])])))

\* round(float(confidence), 2) and the format {confidence:.2f}: to the
\* nearest hundredth, an exact tie going to the even hundredth
Round2(c) ==
  LET q == c \div 100
      r == c % 100
  IN  IF r < 50 THEN q * 100
      ELSE IF r > 50 THEN (q + 1) * 100
      ELSE IF q % 2 = 0 THEN q * 100
      ELSE (q + 1) * 100

\* list(...).index(v), counted from 1
index(classes, v) ==
  CHOOSE i \in 1..Len(classes) :
    classes[i] = v /\ \A j \in 1..(i - 1) : classes[j] # v

\* The class labels are written as strings: "0" and "1" are the integer
\* labels 0 and 1 that the code compares with.
scam_idx(classes) == IF "1" \in Range(classes) THEN index(classes, "1") ELSE 1

safe_idx(classes) == IF "0" \in Range(classes) THEN index(classes, "0") ELSE 2

always_scam_label(predicted_class) == "SCAM"

\* label = 'SCAM' if predicted_class == 1 else 'SAFE'
label_of(predicted_class) == IF predicted_class = "1" THEN "SCAM" ELSE "SAFE"

downgrade_at_threshold(label, confidence, preprocessed_message) ==
  label = "SCAM" /\ confidence <= 6500 /\ Len(split(preprocessed_message)) < 5

\* the context-aware thresholding condition
is_downgraded(label, confidence, preprocessed_message) ==
  label = "SCAM" /\ confidence < 6500 /\ Len(split(preprocessed_message)) < 5

reason_at_threshold(label, confidence) ==
  IF label = "SCAM" /\ confidence >= 8000 THEN "highly likely SCAM"
  ELSE IF label = "SAFE" /\ confidence >= 8000 THEN "highly likely SAFE"
  ELSE "classified by model"

\* the reason of an accepted model verdict, from the unrounded confidence
reason_for(label, confidence) ==
  IF label = "SCAM" /\ confidence > 8000 THEN "highly likely SCAM"
  ELSE IF label = "SAFE" /\ confidence > 8000 THEN "highly likely SAFE"
  ELSE "classified by model"

raw_is_empty(message_, preprocessed_message) == message_ = <<>>

\* if not preprocessed_message
is_empty(message_, preprocessed_message) == preprocessed_message = <<>>

\* A returned (label, confidence, reason).  shown is the confidence printed
\* inside the reason (-1 when the reason prints none); invoked and raised
\* record whether the vectorizer/model was called and whether it raised;
\* scam_probability and safe_probability are the locals of the same name
\* (-1 when never assigned).
Triple(label, confidence, reason, shown, invoked, raised, sp, fp) ==
  [label |-> label, confidence |-> confidence, reason |-> reason,
   shown |-> shown, invoked |-> invoked, raised |-> raised,
   scam_probability |-> sp, safe_probability |-> fp]

propagated_error ==
  Triple("None", -1, "unhandled exception", -1, TRUE, TRUE, -1, -1)

\* the except branch of predict_scam
error_fallback == Triple("SAFE", 5000, "error", -1, TRUE, TRUE, -1, -1)

\* model.predict_proba(...)[0]: one probability per entry of classes_
predict_proba(classes, sem, c) ==
  [i \in 1..Len(classes) |->
     IF classes[i] = sem.scam THEN c.p_scam ELSE Scale - c.p_scam]

\* c is what the vectorizer and the model do in this call
predict_scam(message_, classes, sem, c) ==
  LET preprocessed_message == preprocess_message(message_)
  IN  IF is_empty(message_, preprocessed_message)
        THEN Triple("SAFE", Scale, "empty", -1, FALSE, FALSE, -1, -1)
      ELSE IF preprocessed_message \in InferenceGREETINGS
        THEN Triple("SAFE", 9900, "greeting", -1, FALSE, FALSE, -1, -1)
      ELSE IF c.raises # "none" THEN error_fallback
      ELSE
        LET probabilities == predict_proba(classes, sem, c)
            scam_probability == probabilities[scam_idx(classes)]
            safe_probability == probabilities[safe_idx(classes)]
            predicted_class == c.predicted
            label == label_of(predicted_class)
            confidence == IF predicted_class = "1" THEN scam_probability
                          ELSE safe_probability
        IN  IF is_downgraded(label, confidence, preprocessed_message)
              THEN Triple("SAFE", 6000, "downgrade", Round2(confidence),
                          TRUE, FALSE, scam_probability, safe_probability)
            ELSE Triple(label, Round2(confidence), reason_for(label, confidence),
                        Round2(confidence), TRUE, FALSE,
                        scam_probability, safe_probability)

(* ------------------------------ app.py --------------------------------- *)

\* the /predict endpoint for a JSON body whose message field is a string
predict(message_, classes, sem, c) ==
  IF message_ = <<>>
    THEN [status |-> 400, body |-> "Missing 'message' field in request body"]
  ELSE LET r == predict_scam(message_, classes, sem, c)
       IN  IF r.label = "None"
             THEN [status |-> 500,
                   body |-> Triple("SAFE", 5000, "internal error", -1,
                                   r.invoked, r.raised, -1, -1)]
           ELSE [status |-> 200, body |-> r]

(* ------------------------------ inputs --------------------------------- *)

Fragments ==
  {<<"H","i">>, <<"g","o","o","d"," ","m","o","r","n","i","n","g">>, <<"h","o","w"," ","a","r","e"," ","y","o","u">>, <<"o","k">>, <<"C","o","n","g","r","a","t","u","l","a","t","i","o","n","s">>,
   <<"o","n"," ","m","y"," ","w","a","y">>, <<"f","r","e","e"," ","O","T","P">>, <<"!","!","!","1","2","3">>, <<"w","i","n","$","1","0","0","0","n","o","w">>, <<"\t">>,
   <<"p","a","y","m","e","n","t"," ","r","e","c","e","i","v","e","d"," ","f","o","r"," ","i","n","v","o","i","c","e"," ","#","4","4","5",","," ","t","h","a","n","k","s","!">>,
   <<"c","l","i","c","k"," ","t","h","e"," ","l","i","n","k"," ","t","o"," ","c","l","a","i","m"," ","y","o","u","r"," ","p","r","i","z","e">>,
   <<"s","e","e"," ","y","o","u"," ","a","t"," ","t","h","e"," ","s","t","a","t","i","o","n"," ","t","o","m","o","r","r","o","w">>}

RECURSIVE Join(_)
Join(fs) ==
  IF fs = <<>> THEN <<>>
  ELSE IF Len(fs) = 1 THEN fs[1]
  ELSE fs[1] \o <<" ">> \o Join(Tail(fs))

Messages ==
  {Join(fs) : fs \in UNION {[1..n -> Fragments] : n \in 0..MaxFrags}}

\* the probability the model gives to its SCAM class, in ten-thousandths
ProbSamples ==
  {1000, 1951, 2000, 2040, 5000, 5500, 6250, 6499, 6500, 7960, 8000, 8049, 9000}

\* loaded models whose class labels are the integers the code assumes
\* (0 is SAFE, 1 is SCAM), in either order
DocumentedModels ==
  {[classes_ |-> <<"0", "1">>, scam |-> "1", safe |-> "0"],
   [classes_ |-> <<"1", "0">>, scam |-> "1", safe |-> "0"]}

\* loaded models with other label encodings
OtherModels ==
  {[classes_ |-> <<"SAFE", "SCAM">>, scam |-> "SCAM", safe |-> "SAFE"],
   [classes_ |-> <<"-1", "1">>, scam |-> "1", safe |-> "-1"],
   [classes_ |-> <<"0", "1">>, scam |-> "0", safe |-> "1"]}

\* what the vectorizer and the model can do in one call: raise, or return
\* probabilities and the class of the larger one (either class on a tie)
ClassifierBehaviours(sem) ==
  {[raises |-> w, p_scam |-> 0, predicted |-> sem.safe] :
      w \in {"vectorizer", "predict_proba", "predict"}}
  \cup
  {[raises |-> "none", p_scam |-> p, predicted |-> k] :
      <<p, k>> \in {<<p, k>> \in ProbSamples \X {sem.scam, sem.safe} :
                      \/ 2 * p > Scale /\ k = sem.scam
                      \/ 2 * p < Scale /\ k = sem.safe
                      \/ 2 * p = Scale}}

NoClf == [raises |-> "none", p_scam |-> -1, predicted |-> "None"]

NoResult == [status |-> 0, body |-> "None"]

(* --------------------------- state machine ----------------------------- *)

InitWith(models) ==
  /\ \E m \in models :
        /\ classes_ = m.classes_
        /\ semantics = [scam |-> m.scam, safe |-> m.safe]
  /\ message \in Messages
  /\ pc = "idle"
  /\ op = "none"
  /\ clf = NoClf
  /\ result = NoResult
  /\ outs = <<>>

Init == InitWith(DocumentedModels)

InitAnyEncoding == InitWith(DocumentedModels \cup OtherModels)

\* a direct call classify(message) = predict_scam(message)
CallPredictScam ==
  /\ pc = "idle"
  /\ \E c \in ClassifierBehaviours(semantics) :
       LET r == predict_scam(message, classes_, semantics, c)
       IN  /\ result' = [status |-> 0, body |-> r]
           /\ clf' = IF r.invoked THEN c ELSE NoClf
  /\ op' = "predict_scam"
  /\ pc' = "done"
  /\ UNCHANGED <<classes_, semantics, message, outs>>

\* POST /predict
CallPredict ==
  /\ pc = "idle"
  /\ \E c \in ClassifierBehaviours(semantics) :
       LET r == predict(message, classes_, semantics, c)
       IN  /\ result' = r
           /\ clf' = IF r.status # 400 /\ r.body.invoked THEN c ELSE NoClf
  /\ op' = "predict"
  /\ pc' = "done"
  /\ UNCHANGED <<classes_, semantics, message, outs>>

\* a call apply_rules(message)
CallApplyRules ==
  /\ pc = "idle"
  /\ result' = [status |-> 0, body |-> apply_rules(message)]
  /\ op' = "apply_rules"
  /\ pc' = "done"
  /\ UNCHANGED <<classes_, semantics, message, clf, outs>>

\* normalize_text applied to the message, then to its own output
CallNormalizeText ==
  /\ \/ pc = "idle" /\ outs = <<>>
     \/ pc = "passes" /\ op = "normalize_text" /\ Len(outs) < MaxPasses
  /\ outs' = Append(outs, normalize_text(IF outs = <<>> THEN message
                                          ELSE outs[Len(outs)]))
  /\ op' = "normalize_text"
  /\ pc' = "passes"
  /\ UNCHANGED <<classes_, semantics, message, clf, result>>

\* preprocess_message applied to the message, then to its own output
CallPreprocessMessage ==
  /\ \/ pc = "idle" /\ outs = <<>>
     \/ pc = "passes" /\ op = "preprocess_message" /\ Len(outs) < MaxPasses
  /\ outs' = Append(outs, preprocess_message(IF outs = <<>> THEN message
                                              ELSE outs[Len(outs)]))
  /\ op' = "preprocess_message"
  /\ pc' = "passes"
  /\ UNCHANGED <<classes_, semantics, message, clf, result>>

Next ==
  \/ CallPredictScam
  \/ CallPredict
  \/ CallApplyRules
  \/ CallNormalizeText
  \/ CallPreprocessMessage

Spec == Init /\ [][Next]_vars

SpecAnyEncoding == InitAnyEncoding /\ [][Next]_vars

(* ------------------------------ claims --------------------------------- *)

\* the call was predict_scam and it got a verdict back from the model
ModelVerdict ==
  /\ op = "predict_scam"
  /\ result.body.invoked
  /\ ~result.body.raised

TokenCount == Len(split(preprocess_message(message)))

PredictedScam == clf.predicted = semantics.scam

\* C1: whenever the normalized message is non-empty and apply_rules gives a
\* verdict other than None, predict_scam returns that label and that
\* confidence and does not call the classifier.
C1_RuleVerdictReturned ==
  (/\ op = "predict_scam"
   /\ normalize_text(message) # <<>>
   /\ apply_rules(message) # None)
  => /\ result.body.label = apply_rules(message).label
     /\ result.body.confidence = apply_rules(message).confidence
     /\ ~result.body.invoked

\* C2: apply_rules returns None for every message whose normalized text is
\* short (at most 3 tokens or fewer than 15 characters) and contains a scam
\* keyword.
C2_KeywordGuard ==
  (/\ op = "apply_rules"
   /\ IsShort(normalize_text(message))
   /\ ContainsKeyword(normalize_text(message)))
  => result.body = None

C4_Reconcile ==
  ModelVerdict =>
    IF PredictedScam /\ clf.p_scam < 6500 /\ TokenCount < 5
      THEN /\ result.body.label = "SAFE"
           /\ result.body.confidence = 6000
    ELSE IF PredictedScam
      THEN /\ result.body.label = "SCAM"
           /\ result.body.confidence = Round2(clf.p_scam)
    ELSE /\ result.body.label = "SAFE"
         /\ result.body.confidence = Round2(Scale - clf.p_scam)

C4_Witness ==
  /\ ModelVerdict
  /\ PredictedScam
  /\ clf.p_scam = 6500
  /\ TokenCount < 5
  /\ result.body.label = "SCAM"
  /\ result.body.confidence = 6500

\* C5: when the vectorizer or the model raises, the call still returns the
\* complete triple (SAFE, 0.5, error reason), and the endpoint answers 200
\* with it; every call that reaches the classifier returns a complete triple.
C5_ErrorFallback ==
  /\ (op \in {"predict_scam", "predict"} /\ clf.raises # "none")
       => /\ result.body.label = "SAFE"
          /\ result.body.confidence = 5000
          /\ result.body.reason = "error"
          /\ op = "predict" => result.status = 200
  /\ (op \in {"predict_scam", "predict"} /\ clf # NoClf)
       => /\ result.body.label \in {"SAFE", "SCAM"}
          /\ result.body.confidence \in 0..Scale
          /\ result.body.reason \in
               {"error", "downgrade", "classified by model",
                "highly likely SCAM", "highly likely SAFE"}

C5_Witness ==
  /\ op = "predict"
  /\ clf.raises = "vectorizer"
  /\ result.status = 200
  /\ result.body.reason = "error"

\* C6: a message whose normalized text is empty gets (SAFE, 1.0, empty
\* reason) from predict_scam without any call of the classifier.
C6_EmptyInput ==
  (op = "predict_scam" /\ preprocess_message(message) = <<>>)
  => /\ result.body.label = "SAFE"
     /\ result.body.confidence = Scale
     /\ result.body.reason = "empty"
     /\ ~result.body.invoked
     /\ clf = NoClf

C6_Witness ==
  /\ op = "predict_scam"
  /\ message = <<"!","!","!","1","2","3">>
  /\ result.body.reason = "empty"

\* an output of normalization: only a-z and single interior spaces
IsNormalForm(t) ==
  /\ \A i \in 1..Len(t) : t[i] \in LowerLetters \cup {" "}
  /\ t # <<>> => t[1] # " " /\ t[Len(t)] # " "
  /\ \A i \in 1..(Len(t) - 1) : ~(t[i] = " " /\ t[i + 1] = " ")

\* C7: normalize_text and preprocess_message are idempotent: applied to
\* their own output they return it unchanged; the output has only a-z and
\* single interior spaces, removed characters being deleted, not replaced.
C7_Idempotent ==
  /\ \A i \in 1..Len(outs) : outs[i] = outs[1] /\ IsNormalForm(outs[i])
  /\ (outs # <<>> /\ message = <<"w","i","n","$","1","0","0","0","n","o","w">>) => outs[1] = <<"w","i","n","n","o","w">>

C7_Witness ==
  /\ op = "normalize_text"
  /\ Len(outs) >= 2
  /\ message = <<"!","!","!","1","2","3"," ","H","i">>
  /\ outs[2] = <<"h","i">>

\* C8: whatever the order and the encoding of the model's class labels,
\* scam_probability is the probability of the model's SCAM class and
\* safe_probability the probability of its SAFE class.
C8_ClassIndexResolved ==
  ModelVerdict =>
    /\ result.body.scam_probability = clf.p_scam
    /\ result.body.safe_probability = Scale - clf.p_scam

\* the reason of the returned triple has the "highly likely" form
HighlyLikely == result.body.reason \in {"highly likely SCAM", "highly likely SAFE"}

\* C9: for a model verdict returned without a downgrade the reason has the
\* "highly likely <LABEL>" form exactly when the returned (rounded)
\* confidence is above 0.8, and the generic form otherwise.
C9_ReasonFromRounded ==
  (ModelVerdict /\ result.body.reason # "downgrade")
  => /\ HighlyLikely <=> result.body.confidence > 8000
     /\ ~HighlyLikely <=> result.body.reason = "classified by model"

\* C9 as amended: the reason has the "highly likely <LABEL>" form, for the
\* returned label, exactly when the unrounded probability of that label is
\* above 0.8, and the generic form otherwise; the confidence printed in the
\* reason is the returned one.
C9_ReasonFromUnrounded ==
  (ModelVerdict /\ result.body.reason # "downgrade")
  => LET p == IF result.body.label = "SCAM" THEN clf.p_scam
              ELSE Scale - clf.p_scam
     IN  /\ p > 8000 => result.body.reason =
                           (IF result.body.label = "SCAM"
                              THEN "highly likely SCAM" ELSE "highly likely SAFE")
         /\ p <= 8000 => result.body.reason = "classified by model"
         /\ result.body.shown = result.body.confidence

C9_Witness ==
  /\ ModelVerdict
  /\ clf.p_scam = 8049
  /\ result.body.reason = "highly likely SCAM"
  /\ result.body.confidence = 8000

\* C10: the label SCAM is returned only when the classifier was called, did
\* not raise, predicted SCAM, and the scam probability was at least 0.65 or
\* the text has 5 tokens or more; the empty exit, the greeting exit, the
\* downgrade, the error fallback and every verdict of apply_rules are SAFE.
C10_OnlyTowardsSafe ==
  /\ (/\ op \in {"predict_scam", "predict"}
      /\ result.status # 400
      /\ result.body.label = "SCAM")
       => /\ result.body.invoked
          /\ ~result.body.raised
          /\ PredictedScam
          /\ clf.p_scam >= 6500 \/ TokenCount >= 5
  /\ (/\ op \in {"predict_scam", "predict"}
      /\ result.status # 400
      /\ result.body.reason \in {"empty", "greeting", "downgrade", "error"})
       => result.body.label = "SAFE"
  /\ (op = "apply_rules" /\ result.body # None) => result.body.label = "SAFE"

C10_Witness ==
  /\ op = "predict_scam"
  /\ result.body.label = "SCAM"
  /\ clf.p_scam = 5500
  /\ TokenCount >= 5

====
